---------------------------- MODULE Spec2Model ----------------------------
(***************************************************************************)
(* One run of tools/plot_lut_opt.py: main() -> plot_lut_optimization().   *)
(*                                                                         *)
(* The run is a sequence of stages (pc): argument check, library check,   *)
(* CSV ingestion (pandas, or the csv-module fallback with its row loop),  *)
(* column validation, chart rendering, savefig, summary, process exit.    *)
(*                                                                         *)
(* Numbers are held in thousandths (the cell "0.001" is 1, "30" is 30000, *)
(* size "4" is 4000), so that int and float cells share one encoding.     *)
(* The IEEE specials and a str object are distinguished values with their *)
(* own comparison rules (FLt, FGe, ...).                                   *)
(*                                                                         *)
(* Input files carry no val_mse / val_psnr columns, so has_validation is  *)
(* False on every modelled run and the validation sites are not entered.  *)
(***************************************************************************)
EXTENDS Integers, Sequences, FiniteSets, TLC

\* ------------------------------------------------------------------ bounds
\* Largest number of data rows of an input file (general input family).
MaxRows == 2
\* Largest number of data rows of a file of the example family.
ExampleLen == 3

\* ------------------------------------------------------- float / str values
\* float('inf'), float('-inf'), float('nan'), and a str cell of an
\* object-dtype pandas column.
Inf == 100000000
NegInf == 0 - 100000000
NaN == 200000000
StrObj == 300000000

\* math.isinf / np.isinf
IsInf(x) == x = Inf \/ x = NegInf
\* np.isnan
IsNaN(x) == x = NaN
IsFinite(x) == ~IsInf(x) /\ ~IsNaN(x) /\ x # StrObj

\* IEEE comparisons: every comparison with NaN is False.
FLt(a, b) == a # NaN /\ b # NaN /\ a < b
FGt(a, b) == FLt(b, a)
FLe(a, b) == a # NaN /\ b # NaN /\ a <= b
FGe(a, b) == FLe(b, a)

\* ------------------------------------------------------------ cell parsing
\* Decimal literals that occur in the input alphabets, in thousandths.
NumLit == ("0" :> 0) @@ ("0.001" :> 1) @@ ("0.01" :> 10) @@ ("4" :> 4000)
          @@ ("8" :> 8000) @@ ("16" :> 16000) @@ ("20" :> 20000)
          @@ ("30" :> 30000) @@ ("40" :> 40000)
\* The literals int() accepts (no decimal point).
IntLit == {"0", "4", "8", "16", "20", "30", "40"}

\* str.lower() on the cells of the alphabets.
Lower(tok) == CASE tok = "Infinity" -> "infinity"
                [] tok = "INF" -> "inf"
                [] tok = "NaN" -> "nan"
                [] OTHER -> tok

\* int(s) raises ValueError unless CanInt(s).
CanInt(tok) == tok \in IntLit
PyInt(tok) == NumLit[tok]

\* float(s): decimal literals, and inf / infinity / nan with optional sign,
\* in any letter case; anything else raises ValueError.
CanFloat(tok) == \/ tok \in DOMAIN NumLit
                 \/ Lower(tok) \in {"inf", "infinity", "-inf", "-infinity", "nan"}
PyFloat(tok) == CASE Lower(tok) \in {"inf", "infinity"} -> Inf
                  [] Lower(tok) \in {"-inf", "-infinity"} -> NegInf
                  [] Lower(tok) = "nan" -> NaN
                  [] OTHER -> NumLit[tok]

\* Lines 63-67: 'inf' (any case) is special-cased, the rest goes to float().
CanPsnr(tok) == Lower(tok) = "inf" \/ CanFloat(tok)
ParsePsnr(tok) == IF Lower(tok) = "inf" THEN Inf ELSE PyFloat(tok)

\* pd.read_csv: a column whose cells are all numeric (or NA markers, read as
\* NaN) becomes a numeric column; one cell that is neither makes the whole
\* column object dtype, its cells str objects (NA markers stay NaN).
PdColumn(cells) ==
    IF \A i \in DOMAIN cells : CanFloat(cells[i])
    THEN [i \in DOMAIN cells |-> PyFloat(cells[i])]
    ELSE [i \in DOMAIN cells |-> IF Lower(cells[i]) = "nan" THEN NaN ELSE StrObj]

\* ------------------------------------------------------------------ inputs
AllCols == {"size", "train_mse", "train_psnr"}
\* Headers of the input files: the full extended schema, and the schema
\* with one of its columns absent.
Headers == {AllCols} \cup {AllCols \ {c} : c \in AllCols}

SizeCells == {"4", "8"}
MseCells == {"0", "0.01", "nan", "abc"}
PsnrCells == {"20", "30", "40", "inf", "Infinity", "-inf", "nan", "abc"}
\* Data rows of the general input family.
RowCells == [size : SizeCells, train_mse : MseCells, train_psnr : PsnrCells]

\* Data rows of the example family: the three rows of the documented example
\* (in the extended schema), a smaller row that reaches 40 dB, and a row
\* whose train_mse does not parse.
ExampleRows == { [size |-> "4", train_mse |-> "0.01", train_psnr |-> "20"],
                 [size |-> "8", train_mse |-> "0.001", train_psnr |-> "30"],
                 [size |-> "16", train_mse |-> "0", train_psnr |-> "inf"],
                 [size |-> "4", train_mse |-> "0.001", train_psnr |-> "40"],
                 [size |-> "8", train_mse |-> "abc", train_psnr |-> "30"] }

\* A data row as csv.DictReader / read_csv see it under a header: the cells
\* of absent columns do not exist.
Under(hdr, r) == [c \in AllCols |-> IF c \in hdr THEN r[c] ELSE ""]
SeqsUpTo(S, n) == UNION {[1..k -> S] : k \in 0..n}

\* ------------------------------------------------------------------- state
VARIABLES
    use_mpl,        \* USE_MATPLOTLIB
    use_numpy,      \* USE_NUMPY
    use_pandas,     \* USE_PANDAS
    pc,             \* stage the run is at
    header,         \* columns of the opened CSV file
    sizes,          \* df['size']
    train_mses,     \* df['train_mse']
    train_psnrs,    \* df['train_psnr']
    columns,        \* df.columns ({} while there is no df)
    annotations,    \* ax1.annotate calls made so far
    charted,        \* the figure has been drawn (line 193 reached)
    image,          \* the output image file has been written
    out,            \* lines printed so far
    status,         \* exit status of the process (-1 while it runs)
    exit_at,        \* stage at which the process ended
    bad             \* some data row read so far had a cell that fails to parse

vars == <<use_mpl, use_numpy, use_pandas, pc, header, sizes, train_mses,
          train_psnrs, columns, annotations, charted, image, out, status,
          exit_at, bad>>

env == <<use_mpl, use_numpy, use_pandas>>
frame == <<sizes, train_mses, train_psnrs>>

\* A printed line.  cols carries the column names a message mentions.
Msg(k) == [kind |-> k, v |-> 0, size |-> 0, goal |-> 0, cols |-> {}]
MsgCols(k, cs) == [Msg(k) EXCEPT !.cols = cs]
MsgVal(k, val, sz) == [Msg(k) EXCEPT !.v = val, !.size = sz]
MsgGoal(k, g, val, sz) == [Msg(k) EXCEPT !.goal = g, !.v = val, !.size = sz]

\* Lines 9-30: the module's imports decide the three USE_ flags.
Init ==
    /\ use_mpl \in BOOLEAN
    /\ use_numpy \in BOOLEAN
    /\ use_pandas \in BOOLEAN
    /\ pc = "main"
    /\ header = {}
    /\ sizes = <<>>
    /\ train_mses = <<>>
    /\ train_psnrs = <<>>
    /\ columns = {}
    /\ annotations = <<>>
    /\ charted = FALSE
    /\ image = FALSE
    /\ out = <<>>
    /\ status = -1
    /\ exit_at = "none"
    /\ bad = FALSE

\* sys.exit(code) after printing msgs; also the normal end of main (code 0).
Exit(code, msgs) ==
    /\ pc' = "exit"
    /\ status' = code
    /\ exit_at' = pc
    /\ out' = out \o msgs

\* An exception nobody catches: traceback, exit status 1.
Raise(msgs) == Exit(1, msgs \o <<Msg("traceback")>>)

\* ----------------------------------------------------------------- actions
\* main(), lines 250-258: exactly two arguments, or usage and exit 1.
Main ==
    /\ pc = "main"
    /\ \E argc_ok \in BOOLEAN :
         IF argc_ok
         THEN /\ pc' = "libs"
              /\ UNCHANGED <<out, status, exit_at>>
         ELSE Exit(1, <<Msg("usage")>>)
    /\ UNCHANGED <<env, header, frame, columns, annotations, charted, image, bad>>

\* Lines 35-38: without matplotlib or numpy the function prints and returns;
\* main then returns and the process ends with status 0.
CheckLibs ==
    /\ pc = "libs"
    /\ IF ~use_mpl \/ ~use_numpy
       THEN Exit(0, <<Msg("nolibs")>>)
       ELSE /\ pc' = "read"
            /\ UNCHANGED <<out, status, exit_at>>
    /\ UNCHANGED <<env, header, frame, columns, annotations, charted, image, bad>>

\* Lines 41-49: pd.read_csv of the whole file.
ReadCsvPandas(Rows, n) ==
    /\ pc = "read"
    /\ use_pandas
    /\ \/ /\ Exit(1, <<Msg("notfound")>>)
          /\ UNCHANGED <<header, frame, columns, bad>>
       \/ /\ Exit(1, <<Msg("readerror")>>)
          /\ UNCHANGED <<header, frame, columns, bad>>
       \/ \E hdr \in Headers : \E rows \in SeqsUpTo(Rows, n) :
            LET cell(c) == [i \in DOMAIN rows |-> Under(hdr, rows[i])[c]]
                col(c) == IF c \in hdr THEN PdColumn(cell(c)) ELSE <<>>
            IN /\ header' = hdr
               /\ columns' = hdr
               /\ sizes' = col("size")
               /\ train_mses' = col("train_mse")
               /\ train_psnrs' = col("train_psnr")
               /\ bad' = \E i \in DOMAIN rows : \E c \in hdr :
                            ~CanFloat(Under(hdr, rows[i])[c])
               /\ pc' = "validate"
               /\ UNCHANGED <<out, status, exit_at>>
    /\ UNCHANGED <<env, annotations, charted, image>>

\* Lines 52-57 and 106-111: open the file and read its header; the file is
\* missing, or cannot be opened or decoded, or its header is read.
OpenCsv ==
    /\ pc = "read"
    /\ ~use_pandas
    /\ \/ /\ Exit(1, <<Msg("notfound")>>)
          /\ UNCHANGED header
       \/ /\ Exit(1, <<Msg("readerror")>>)
          /\ UNCHANGED header
       \/ /\ \E hdr \in Headers : header' = hdr
          /\ pc' = "loop"
          /\ UNCHANGED <<out, status, exit_at>>
    /\ UNCHANGED <<env, frame, columns, annotations, charted, image, bad>>

\* ReadRow as a loader that tolerates a bad row would be: a row with a cell
\* that raises ValueError is dropped and the loop goes on.
ReadRowSkipping(Rows, n) ==
    /\ pc = "loop"
    /\ Len(train_psnrs) < n
    /\ \E r \in Rows :
         LET row == Under(header, r)
             present == AllCols \subseteq header
             parses == /\ CanInt(row["size"]) /\ CanFloat(row["train_mse"])
                       /\ CanPsnr(row["train_psnr"])
         IN IF ~present
            THEN /\ Exit(1, <<MsgCols("readerror", AllCols \ header)>>)
                 /\ UNCHANGED <<frame, bad>>
            ELSE IF ~parses
                 THEN /\ bad' = TRUE
                      /\ UNCHANGED <<frame, pc, out, status, exit_at>>
                 ELSE /\ sizes' = Append(sizes, PyInt(row["size"]))
                      /\ train_mses' = Append(train_mses, PyFloat(row["train_mse"]))
                      /\ train_psnrs' = Append(train_psnrs, ParsePsnr(row["train_psnr"]))
                      /\ UNCHANGED <<bad, pc, out, status, exit_at>>
    /\ UNCHANGED <<env, header, columns, annotations, charted, image>>

\* Lines 58-80 and 109-111: one iteration of the row loop.  A KeyError or
\* ValueError leaves the loop through `except Exception`: message, exit 1.
\* The lists keep what was appended before the exception.
ReadRow(Rows, n) ==
    /\ pc = "loop"
    /\ Len(train_psnrs) < n
    /\ \E r \in Rows :
         LET row == Under(header, r)
             sizeOk == "size" \in header /\ CanInt(row["size"])
             mseOk == sizeOk /\ "train_mse" \in header /\ CanFloat(row["train_mse"])
             psnrOk == mseOk /\ "train_psnr" \in header /\ CanPsnr(row["train_psnr"])
             missing == IF "size" \notin header THEN {"size"}
                        ELSE IF ~sizeOk THEN {}
                        ELSE IF "train_mse" \notin header THEN {"train_mse"}
                        ELSE IF ~mseOk THEN {}
                        ELSE IF "train_psnr" \notin header THEN {"train_psnr"}
                        ELSE {}
         IN /\ sizes' = IF sizeOk THEN Append(sizes, PyInt(row["size"])) ELSE sizes
            /\ train_mses' = IF mseOk THEN Append(train_mses, PyFloat(row["train_mse"]))
                             ELSE train_mses
            /\ train_psnrs' = IF psnrOk THEN Append(train_psnrs, ParsePsnr(row["train_psnr"]))
                              ELSE train_psnrs
            /\ bad' = (bad \/ (~psnrOk /\ missing = {}))
            /\ IF psnrOk
               THEN UNCHANGED <<pc, out, status, exit_at>>
               ELSE Exit(1, <<MsgCols("readerror", missing)>>)
    /\ UNCHANGED <<env, header, columns, annotations, charted, image>>

\* Lines 82-104: the reader is exhausted; the lists are wrapped in a
\* SimpleDF, whose columns are the five fixed keys whatever the header was.
EndOfFile ==
    /\ pc = "loop"
    /\ columns' = {"size", "train_mse", "train_psnr", "val_mse", "val_psnr"}
    /\ pc' = "validate"
    /\ UNCHANGED <<env, header, frame, annotations, charted, image, out,
                   status, exit_at, bad>>

\* Lines 113-118: required columns.
required_cols == {"size", "train_psnr"}
Validate ==
    /\ pc = "validate"
    /\ LET missing_cols == required_cols \ columns
       IN IF missing_cols # {}
          THEN Exit(1, <<MsgCols("missing", missing_cols)>>)
          ELSE /\ pc' = "render"
               /\ UNCHANGED <<out, status, exit_at>>
    /\ UNCHANGED <<env, header, frame, columns, annotations, charted, image, bad>>

\* ------------------------------------------------------------- rendering
\* The y position at which an infinite PSNR is drawn (65.0 dB).
CapDb == 65000

\* Lines 152-170: the label of one point of the PSNR chart.  An infinite
\* value gets the glyph at the capped position; any other value is
\* formatted with one decimal (y is the value handed to the format).
Label(psnr_val, size) ==
    IF IsInf(psnr_val)
    THEN [glyph |-> TRUE, x |-> size, y |-> CapDb]
    ELSE [glyph |-> FALSE, x |-> size, y |-> psnr_val]

Labels(n) == [i \in 1..n |-> Label(train_psnrs[i], sizes[i])]

\* Index of the first str cell of a column, 0 if it has none.
FirstStr(col) ==
    IF \E i \in DOMAIN col : col[i] = StrObj
    THEN CHOOSE i \in DOMAIN col : col[i] = StrObj /\ \A j \in 1..(i-1) : col[j] # StrObj
    ELSE 0

\* Lines 126-193: both charts.  With the fallback frame every value is a
\* float and nothing raises.  With a pandas frame: a str cell of train_psnr
\* raises TypeError (plotting at line 135 or np.isinf at line 155, after the
\* labels of the rows before it); a frame without train_mse raises KeyError
\* at line 173; a str cell of train_mse raises at line 173 or at the format
\* of line 186.  None of these is caught.  A NaN value raises nothing: it
\* is formatted as "nan" and its label, at a non-finite position, is left
\* undrawn.
Render ==
    /\ pc = "render"
    /\ LET n == Len(train_psnrs)
           k == FirstStr(train_psnrs)
       IN IF use_pandas /\ k # 0
          THEN /\ annotations' \in {<<>>, Labels(k - 1)}
               /\ Raise(<<>>)
               /\ UNCHANGED charted
          ELSE /\ annotations' = Labels(n)
               /\ IF use_pandas /\ ("train_mse" \notin columns \/ FirstStr(train_mses) # 0)
                  THEN /\ Raise(<<>>)
                       /\ UNCHANGED charted
                  ELSE /\ charted' = TRUE
                       /\ pc' = "save"
                       /\ UNCHANGED <<out, status, exit_at>>
    /\ UNCHANGED <<env, header, frame, columns, image, bad>>

\* Lines 195-200: plt.savefig writes the image, or raises and the run
\* ends with exit status 1.
Save ==
    /\ pc = "save"
    /\ \E written \in BOOLEAN :
         IF written
         THEN /\ image' = TRUE
              /\ out' = Append(out, Msg("saved"))
              /\ pc' = "summary"
              /\ UNCHANGED <<status, exit_at>>
         ELSE /\ Exit(1, <<Msg("saveerror")>>)
              /\ UNCHANGED image
    /\ UNCHANGED <<env, header, frame, columns, annotations, charted, bad>>

\* ---------------------------------------------------------------- summary
\* goals = [30, 36, 40]
goals == <<30000, 36000, 40000>>

\* Series.replace([np.inf, -np.inf], np.nan)
ReplaceInf(col) == [i \in DOMAIN col |-> IF IsInf(col[i]) THEN NaN ELSE col[i]]
\* Series.max() / Series.min(): NaN is skipped; NaN when nothing is left.
Valid(col) == {i \in DOMAIN col : ~IsNaN(col[i])}
PdMax(col) == IF Valid(col) = {} THEN NaN
              ELSE col[CHOOSE i \in Valid(col) : \A j \in Valid(col) : col[j] <= col[i]]
PdMin(col) == IF Valid(col) = {} THEN NaN
              ELSE col[CHOOSE i \in Valid(col) : \A j \in Valid(col) : col[i] <= col[j]]
\* Series.idxmax() / Series.idxmin(): label of the first occurrence.
First(S) == CHOOSE i \in S : \A j \in S : i <= j
PdIdxMax(col) == First({i \in Valid(col) : col[i] = PdMax(col)})
PdIdxMin(col) == First({i \in Valid(col) : col[i] = PdMin(col)})

\* Lines 205-209.
BestLinePandas ==
    LET train_psnr_max == PdMax(ReplaceInf(train_psnrs))
    IN IF ~IsNaN(train_psnr_max)
       THEN MsgVal("best", train_psnr_max, sizes[PdIdxMax(ReplaceInf(train_psnrs))])
       ELSE Msg("bestinf")

\* Lines 222-230, one goal: the report line, or nothing.
GoalLine(goal) ==
    LET meeting_goal == {i \in DOMAIN train_psnrs : FGe(train_psnrs[i], goal)}
        smallest == First({i \in meeting_goal :
                             \A j \in meeting_goal : sizes[i] <= sizes[j]})
    IN IF meeting_goal = {} THEN <<>>
       ELSE IF IsInf(train_psnrs[smallest])
            THEN <<MsgGoal("goalinf", goal, 0, sizes[smallest])>>
            ELSE <<MsgGoal("goal", goal, train_psnrs[smallest], sizes[smallest])>>

\* Lines 203-230.  idxmin() of an empty or all-NaN train_mse has no label to
\* return: line 211 raises before it prints.
SummaryPandas ==
    /\ pc = "summary"
    /\ use_pandas
    /\ IF Valid(train_mses) = {}
       THEN Raise(<<Msg("summary"), BestLinePandas>>)
       ELSE Exit(0, <<Msg("summary"), BestLinePandas,
                      MsgVal("lowest", PdMin(train_mses), sizes[PdIdxMin(train_mses)])>>
                    \o GoalLine(goals[1]) \o GoalLine(goals[2]) \o GoalLine(goals[3]))
    /\ UNCHANGED <<env, header, frame, columns, annotations, charted, image, bad>>

\* MaxIdxLoop as a plain arg-max would be: infinity takes part in the
\* comparison like any other value.
RECURSIVE MaxIdxLoopPlain(_, _, _)
MaxIdxLoopPlain(ps, i, m) ==
    IF i > Len(ps) THEN m
    ELSE IF FGt(ps[i], ps[m])
         THEN MaxIdxLoopPlain(ps, i + 1, i)
         ELSE MaxIdxLoopPlain(ps, i + 1, m)

\* Lines 237-240: the loop over enumerate(train_psnrs), from position i on,
\* with max_idx = m (positions count from 1 here).
RECURSIVE MaxIdxLoop(_, _, _)
MaxIdxLoop(ps, i, m) ==
    IF i > Len(ps) THEN m
    ELSE IF ~IsInf(ps[i]) /\ (IsInf(ps[m]) \/ FGt(ps[i], ps[m]))
         THEN MaxIdxLoop(ps, i + 1, i)
         ELSE MaxIdxLoop(ps, i + 1, m)
MaxIdx(ps) == MaxIdxLoop(ps, 1, 1)

\* BestLineFallback without the math.isinf test of line 242.
BestLineFallbackUnguarded ==
    LET max_idx == MaxIdx(train_psnrs)
    IN MsgVal("best", train_psnrs[max_idx], sizes[max_idx])

\* Lines 242-245.
BestLineFallback ==
    LET max_idx == MaxIdx(train_psnrs)
    IN IF IsInf(train_psnrs[max_idx])
       THEN Msg("bestinf")
       ELSE MsgVal("best", train_psnrs[max_idx], sizes[max_idx])

\* min(list): the first element, replaced by each later one that compares
\* less than it.
RECURSIVE PyMinLoop(_, _, _)
PyMinLoop(xs, i, m) ==
    IF i > Len(xs) THEN m
    ELSE IF FLt(xs[i], m) THEN PyMinLoop(xs, i + 1, xs[i])
         ELSE PyMinLoop(xs, i + 1, m)
PyMin(xs) == PyMinLoop(xs, 2, xs[1])
\* list.index(x): the first position holding x (the object itself, or equal).
PyIndex(xs, x) == First({i \in DOMAIN xs : xs[i] = x})

\* Lines 247-248.
LowestLineFallback ==
    LET min_mse_idx == PyIndex(train_mses, PyMin(train_mses))
    IN MsgVal("lowest", train_mses[min_mse_idx], sizes[min_mse_idx])

\* Lines 203 and 232-248.  On an empty frame train_psnrs[max_idx] raises
\* IndexError.
SummaryFallback ==
    /\ pc = "summary"
    /\ ~use_pandas
    /\ IF Len(train_psnrs) = 0
       THEN Raise(<<Msg("summary")>>)
       ELSE Exit(0, <<Msg("summary"), BestLineFallback, LowestLineFallback>>)
    /\ UNCHANGED <<env, header, frame, columns, annotations, charted, image, bad>>

\* ---------------------------------------------------------- specifications
Next ==
    \/ Main
    \/ CheckLibs
    \/ ReadCsvPandas(RowCells, MaxRows)
    \/ OpenCsv
    \/ ReadRow(RowCells, MaxRows)
    \/ EndOfFile
    \/ Validate
    \/ Render
    \/ Save
    \/ SummaryPandas
    \/ SummaryFallback

Spec == Init /\ [][Next]_vars

\* The same run, its input file drawn from the example family.
NextEx ==
    \/ Main
    \/ CheckLibs
    \/ ReadCsvPandas(ExampleRows, ExampleLen)
    \/ OpenCsv
    \/ ReadRow(ExampleRows, ExampleLen)
    \/ EndOfFile
    \/ Validate
    \/ Render
    \/ Save
    \/ SummaryPandas
    \/ SummaryFallback

SpecEx == Init /\ [][NextEx]_vars

TypeOK ==
    /\ pc \in {"main", "libs", "read", "loop", "validate", "render", "save",
               "summary", "exit"}
    /\ status \in {-1, 0, 1}
    /\ (pc = "exit") = (status # -1)
    /\ ~use_pandas => /\ Len(sizes) >= Len(train_mses)
                      /\ Len(train_mses) >= Len(train_psnrs)
    /\ pc \in {"render", "save", "summary"} => Len(sizes) = Len(train_psnrs)

\* ------------------------------------------------------------- properties
HasMsg(k) == \E i \in DOMAIN out : out[i].kind = k
\* The summary stage was entered and the process has ended in it.
SummaryRan == pc = "exit" /\ exit_at = "summary"
RowIdx == DOMAIN train_psnrs

C2_BestIsFiniteMax ==
    (SummaryRan /\ \E i \in RowIdx : IsFinite(train_psnrs[i])) =>
        \E k \in DOMAIN out :
            /\ out[k].kind = "best"
            /\ IsFinite(out[k].v)
            /\ \A i \in RowIdx : IsFinite(train_psnrs[i]) => train_psnrs[i] <= out[k].v
            /\ \E i \in RowIdx : train_psnrs[i] = out[k].v /\ sizes[i] = out[k].size

\* The series of the documented example.
ExampleSeries ==
    /\ sizes = <<4000, 8000, 16000>>
    /\ train_mses = <<10, 1, 0>>
    /\ train_psnrs = <<20000, 30000, Inf>>

\* C3 (as claimed): for the example series the summary reports the
\* perfect-reconstruction message as best PSNR, and lowest MSE 0 at size 16.
C3_ExampleReportsInfinity ==
    (SummaryRan /\ ExampleSeries) =>
        /\ HasMsg("bestinf")
        /\ \E k \in DOMAIN out :
             out[k].kind = "lowest" /\ out[k].v = 0 /\ out[k].size = 16000

\* C3 (amended): for the example series the summary reports best PSNR
\* 30 dB at size 8 (the maximum of the finite values), never the
\* perfect-reconstruction message, and lowest MSE 0 at size 16.
C3_ExampleReportsFiniteMax ==
    (SummaryRan /\ ExampleSeries) =>
        /\ status = 0
        /\ ~HasMsg("bestinf")
        /\ \E k \in DOMAIN out :
             out[k].kind = "best" /\ out[k].v = 30000 /\ out[k].size = 8000
        /\ \E k \in DOMAIN out :
             out[k].kind = "lowest" /\ out[k].v = 0 /\ out[k].size = 16000

\* C3 witness: the summary has been printed for the example series by the
\* fallback summary.
C3_Witness == SummaryRan /\ ExampleSeries /\ ~use_pandas

\* C4 (as claimed): in a run whose summary completes, on either ingestion
\* path, each goal G with a row of PSNR >= G is reported with the smallest
\* size among those rows (and that row's PSNR, or infinity); a goal no row
\* meets is not reported.
C4_GoalsReported ==
    (SummaryRan /\ status = 0) =>
        \A g \in {goals[n] : n \in DOMAIN goals} :
            LET meeting == {i \in RowIdx : FGe(train_psnrs[i], g)}
                lines == {k \in DOMAIN out :
                            out[k].kind \in {"goal", "goalinf"} /\ out[k].goal = g}
            IN IF meeting = {} THEN lines = {}
               ELSE \E k \in lines : \E i \in meeting :
                      /\ \A j \in meeting : sizes[i] <= sizes[j]
                      /\ out[k].size = sizes[i]
                      /\ IF IsInf(train_psnrs[i]) THEN out[k].kind = "goalinf"
                         ELSE out[k].kind = "goal" /\ out[k].v = train_psnrs[i]

\* C5 (as claimed): no loaded series holds a NaN or a negative-infinity
\* PSNR.
C5_PsnrNeverNaNOrNegInf ==
    columns # {} => \A i \in RowIdx : ~IsNaN(train_psnrs[i]) /\ train_psnrs[i] # NegInf

\* C6 (as claimed): a run that ends with a fatal error has written no image.
C6_NoImageOnFatalError ==
    (pc = "exit" /\ status # 0) => ~image

\* C7 (as claimed): exit status 0 only after the image was written.
C7_ExitZeroOnlyWithImage ==
    (pc = "exit" /\ status = 0) => image

\* C8 (as claimed): once a file whose header lacks `size` has been opened,
\* no chart is rendered, and the run ends with status 1 and a message that
\* names `size`.
C8_MissingSizeRejected ==
    (header # {} /\ "size" \notin header) =>
        /\ ~charted
        /\ pc = "exit" => /\ status = 1
                          /\ \E k \in DOMAIN out : "size" \in out[k].cols

\* C9 (as claimed): when the summary is printed for a series with a real
\* (non-NaN) train MSE, the lowest MSE reported is the minimum over the rows
\* and its size is that of the first row holding the minimum.
C9_LowestIsFirstMinimum ==
    (SummaryRan /\ \E i \in DOMAIN train_mses : ~IsNaN(train_mses[i])) =>
        \E k \in DOMAIN out : \E i \in DOMAIN train_mses :
            /\ out[k].kind = "lowest"
            /\ out[k].v = train_mses[i] /\ out[k].size = sizes[i]
            /\ \A j \in DOMAIN train_mses : FLe(train_mses[i], train_mses[j])
                                            \/ IsNaN(train_mses[j])
            /\ \A j \in 1..(i-1) : train_mses[j] # train_mses[i]

\* C10: when the summary is printed for a non-empty series whose PSNR values
\* are all infinite, the best PSNR is the perfect-reconstruction message and
\* no numeric best PSNR is printed; and no infinite value is ever handed to
\* a fixed-decimal format, in a chart label or in a summary line.
C10_InfiniteNeverNumeric ==
    /\ (SummaryRan /\ RowIdx # {} /\ \A i \in RowIdx : IsInf(train_psnrs[i])) =>
           HasMsg("bestinf") /\ ~HasMsg("best")
    /\ \A i \in DOMAIN annotations :
           ~annotations[i].glyph => ~IsInf(annotations[i].y)
    /\ \A k \in DOMAIN out :
           out[k].kind \in {"best", "goal"} => ~IsInf(out[k].v)

\* C10 witness: the fallback summary has been printed for a series of two or
\* more rows, all of infinite PSNR, -inf among them.
C10_Witness ==
    /\ SummaryRan /\ ~use_pandas /\ Len(train_psnrs) >= 2
    /\ \A i \in RowIdx : IsInf(train_psnrs[i])
    /\ \E i \in RowIdx : train_psnrs[i] = NegInf
    /\ HasMsg("bestinf")

=============================================================================
